---- MODULE Spec2Model ----
(***************************************************************************)
(* Model of src/vector.h: Vector<T>, a growable array built on raw storage *)
(* (operator new / operator delete) and explicit element lifetime          *)
(* (placement new, std::uninitialized_*, std::destroy).                    *)
(*                                                                         *)
(* The heap is a map from region ids to blocks of slots.  A slot is Raw    *)
(* (no object lives there) or holds the value of a live T.  Every element  *)
(* construction, element move and allocation is a point where the element  *)
(* type or the memory provider may throw; the point that throws is an      *)
(* input of each operation.  The element type T is a parameter of the      *)
(* template; the model instantiates it with a type that owns a resource:   *)
(* copying duplicates the value, moving leaves the source in a moved-from  *)
(* state (as std::string or std::unique_ptr do), and any constructor may   *)
(* throw.                                                                  *)
(***************************************************************************)
EXTENDS Integers, Sequences, FiniteSets, TLC

\* ---------------------------------------------------------------- bounds
NumInst == 2
MaxCap == 3
PairCap == 2
MaxVal == 2
PairVal == 1
PushCap == 8

\* ------------------------------------------------------- program values
NullPtr == 0
Raw == -2
MovedFrom == -1
DefaultVal == 0

Inst == 1..NumInst
Region == 1..(NumInst + 1)
Values == 1..MaxVal
PairValues == 1..PairVal

\* The point of an operation that throws: none, the allocation, the k-th
\* element move, or the k-th element construction (copy, fill, default, emplace).
NoFail == [at |-> "none", k |-> 0]
AllocFail == [at |-> "alloc", k |-> 0]
Fail(c) == {NoFail, AllocFail} \cup [at : {"move", "ctor"}, k : 1..c]

MoveFailAt(f) == IF f.at = "move" THEN f.k ELSE 0
CtorFailAt(f) == IF f.at = "ctor" THEN f.k ELSE 0

VARIABLES heap, vec, faults, crashed, last, frame
vars == <<heap, vec, faults, crashed, last, frame>>

EmptyVec == [alive |-> TRUE, size_ |-> 0, capacity_ |-> 0, data_ |-> NullPtr]
NoVec == [alive |-> FALSE, size_ |-> 0, capacity_ |-> 0, data_ |-> NullPtr]

\* ------------------------------------------------------ memory primitives
\* A memory M is [heap, faults]; faults collects the lifetime errors made so far.
RawBlock(n) == [k \in 1..n |-> Raw]

Block(M, p) == IF p = NullPtr THEN <<>> ELSE M.heap[p]

FreeRegions(M) == {r \in Region : M.heap[r] = <<>>}

\* operator new: some region not in use (the lowest, regions being interchangeable).
NewRegion(M) == CHOOSE r \in FreeRegions(M) : \A q \in FreeRegions(M) : r <= q

\* Allocate(n) without the test for n == 0.
AllocatePtrAlways(M, n) == NewRegion(M)

\* Allocate(n): the pointer returned.
AllocatePtr(M, n) == IF n = 0 THEN NullPtr ELSE NewRegion(M)

\* Allocate(n): the memory afterwards.
Allocate(M, n) ==
    IF AllocatePtr(M, n) = NullPtr THEN M
    ELSE [M EXCEPT !.heap[AllocatePtr(M, n)] = RawBlock(n)]

\* Deallocate(p): operator delete unless p is null.
Deallocate(M, p) ==
    IF p = NullPtr THEN M
    ELSE [heap |-> [M.heap EXCEPT ![p] = <<>>],
          faults |-> M.faults
              \cup (IF M.heap[p] = <<>> THEN {"double_free"} ELSE {})
              \cup (IF \E k \in DOMAIN M.heap[p] : M.heap[p][k] # Raw
                    THEN {"leaked_object"} ELSE {})]

\* std::destroy(p + a, p + b): runs ~T() on slots a .. b-1 (0-based).
Destroy(M, p, a, b) ==
    LET idx == (a + 1)..b IN
    IF idx = {} THEN M
    ELSE IF p = NullPtr \/ \E k \in idx : k \notin DOMAIN M.heap[p]
    THEN [M EXCEPT !.faults = @ \cup {"wild_destroy"}]
    ELSE [heap |-> [M.heap EXCEPT ![p] =
                       [k \in DOMAIN @ |-> IF k \in idx THEN Raw ELSE @[k]]],
          faults |-> M.faults
              \cup (IF \E k \in idx : M.heap[p][k] = Raw
                    THEN {"destroy_raw"} ELSE {})]

\* Placement construction of the values vals[1..cnt] at slots off .. off+cnt-1
\* (0-based) of region p, the failAt-th construction throwing (0: none).  As
\* std::uninitialized_copy / _fill_n / _default_construct_n do, the elements
\* already constructed by this call are destroyed before the exception leaves.
\* Result: [M, ok].
Construct(M, p, off, vals, failAt) ==
    LET cnt == Len(vals)
        fails == failAt \in 1..cnt
        idx == (off + 1)..(off + cnt)
    IN  IF cnt = 0 THEN [M |-> M, ok |-> TRUE]
        ELSE IF p = NullPtr \/ \E k \in idx : k \notin DOMAIN M.heap[p]
        THEN [M |-> [M EXCEPT !.faults = @ \cup {"wild_construct"}], ok |-> ~fails]
        ELSE LET over == \E k \in idx :
                            /\ (fails => k < off + failAt)
                            /\ M.heap[p][k] # Raw
                 fl == M.faults \cup (IF over THEN {"construct_over_live"} ELSE {})
             IN  IF fails
                 THEN [M |-> [heap |-> [M.heap EXCEPT ![p] =
                                  [k \in DOMAIN @ |->
                                      IF k \in idx /\ k < off + failAt THEN Raw ELSE @[k]]],
                              faults |-> fl],
                       ok |-> FALSE]
                 ELSE [M |-> [heap |-> [M.heap EXCEPT ![p] =
                                  [k \in DOMAIN @ |->
                                      IF k \in idx THEN vals[k - off] ELSE @[k]]],
                              faults |-> fl],
                       ok |-> TRUE]

\* What T's move constructor leaves in its source.
MovedSource(val) == MovedFrom

\* std::uninitialized_move(src, src + n, dst), the failAt-th move throwing
\* (0: none): each element is move-constructed into dst and its source is left
\* as T's move constructor leaves it; on a throw the elements constructed in dst
\* so far are destroyed, the sources already moved from stay moved from.
UninitializedMove(M, src, n, dst, failAt) ==
    LET fails == failAt \in 1..n
        done == IF fails THEN failAt - 1 ELSE n
        old == Block(M, src)
        moved == [k \in 1..done |-> old[k]]
        M1 == IF done = 0 THEN M
              ELSE [M EXCEPT !.heap[src] =
                       [k \in DOMAIN @ |->
                           IF k <= done THEN MovedSource(@[k]) ELSE @[k]]]
        R == Construct(M1, dst, 0, moved, 0)
    IN  IF fails THEN [M |-> Destroy(R.M, dst, 0, done), ok |-> FALSE]
        ELSE R

\* ------------------------------------------------------ Vector operations
\* Each operation is a function of the memory M, the instance v (and its
\* arguments) to the memory and instance afterwards: [M, v, ok], ok = FALSE when
\* an exception leaves the call.

Contents(M, v) == SubSeq(Block(M, v.data_), 1, v.size_)

\* An argument passed by reference: an object outside the array holding x
\* (own = FALSE), or element x (0-based) of the array itself (own = TRUE).
External(x) == [own |-> FALSE, x |-> x]
Element(x) == [own |-> TRUE, x |-> x]
ArgValue(M, v, a) == IF a.own THEN Block(M, v.data_)[a.x + 1] ELSE a.x

\* A constructor whose catch block rethrows without releasing the storage.
ConstructVectorLeaks(M, cap, vals, f) ==
    IF f.at = "alloc" /\ cap > 0 THEN [M |-> M, v |-> NoVec, ok |-> FALSE]
    ELSE LET data == AllocatePtr(M, cap)
             C == Construct(Allocate(M, cap), data, 0, vals, CtorFailAt(f))
         IN  IF C.ok
             THEN [M |-> C.M,
                   v |-> [alive |-> TRUE, size_ |-> Len(vals), capacity_ |-> cap,
                          data_ |-> data],
                   ok |-> TRUE]
             ELSE [M |-> C.M, v |-> NoVec, ok |-> FALSE]

\* Vector(size), Vector(size, value), Vector(first, last), Vector(init):
\* size_ = capacity_ = Len(vals), data_ = Allocate(size), then the elements are
\* constructed; on a throw the storage is released and no instance exists.
ConstructVector(M, cap, vals, f) ==
    IF f.at = "alloc" /\ cap > 0 THEN [M |-> M, v |-> NoVec, ok |-> FALSE]
    ELSE LET data == AllocatePtr(M, cap)
             C == Construct(Allocate(M, cap), data, 0, vals, CtorFailAt(f))
         IN  IF C.ok
             THEN [M |-> C.M,
                   v |-> [alive |-> TRUE, size_ |-> Len(vals), capacity_ |-> cap,
                          data_ |-> data],
                   ok |-> TRUE]
             ELSE [M |-> Deallocate(C.M, data), v |-> NoVec, ok |-> FALSE]

DefaultValues(n) == [k \in 1..n |-> DefaultVal]
FillValues(n, value) == [k \in 1..n |-> value]

\* A copy constructor that allocates for size_ elements only.
CopyConstructTight(M, other, f) ==
    ConstructVector(M, other.size_, Contents(M, other), f)

\* Vector(const Vector& other)
CopyConstruct(M, other, f) ==
    ConstructVector(M, other.capacity_, Contents(M, other), f)

\* A Clear that destroys the elements and forgets size_ = 0.
DoClearKeepsSize(M, v) ==
    IF v.data_ # NullPtr
    THEN [M |-> Destroy(M, v.data_, 0, v.size_), v |-> v, ok |-> TRUE]
    ELSE [M |-> M, v |-> v, ok |-> TRUE]

\* Clear()
DoClear(M, v) ==
    IF v.data_ # NullPtr
    THEN [M |-> Destroy(M, v.data_, 0, v.size_), v |-> [v EXCEPT !.size_ = 0], ok |-> TRUE]
    ELSE [M |-> M, v |-> v, ok |-> TRUE]

\* ~Vector(): Clear(); Deallocate(data_).
Destruct(M, v) == Deallocate(DoClear(M, v).M, v.data_)

\* The growth sequence every reallocating operation repeats: allocate, move the
\* live elements over, construct the new ones (args), and on a throw destroy
\* new_data[0, size_) and release it; otherwise destroy and release the old
\* storage and adopt the new one.  size_ is left to the caller.
Reallocate(M, v, new_cap, args, f) ==
    LET Finish(new_data, C) ==
            IF ~C.ok
            THEN [M |-> Deallocate(Destroy(C.M, new_data, 0, v.size_), new_data),
                  v |-> v, ok |-> FALSE]
            ELSE [M |-> Deallocate(Destroy(C.M, v.data_, 0, v.size_), v.data_),
                  v |-> [v EXCEPT !.data_ = new_data, !.capacity_ = new_cap],
                  ok |-> TRUE]
        Fill(new_data, Mv) ==
            Finish(new_data,
                   IF Mv.ok
                   THEN Construct(Mv.M, new_data, v.size_,
                                  [j \in 1..Len(args) |-> ArgValue(Mv.M, v, args[j])],
                                  CtorFailAt(f))
                   ELSE Mv)
        Move(new_data) ==
            Fill(new_data,
                 UninitializedMove(Allocate(M, new_cap), v.data_, v.size_, new_data,
                                   MoveFailAt(f)))
    IN  IF f.at = "alloc" /\ new_cap > 0 THEN [M |-> M, v |-> v, ok |-> FALSE]
        ELSE Move(AllocatePtr(M, new_cap))

SetSize(R, n) == IF R.ok THEN [R EXCEPT !.v.size_ = n] ELSE R

\* A Resize that fills the gap from the first slot on instead of from slot size_.
DoResizeValueFromStart(M, v, new_size, arg, f) ==
    IF new_size > v.capacity_
    THEN SetSize(Reallocate(M, v, new_size,
                            [j \in 1..(new_size - v.size_) |-> arg], f),
                 new_size)
    ELSE IF new_size < v.size_
    THEN [M |-> Destroy(M, v.data_, new_size, v.size_),
          v |-> [v EXCEPT !.size_ = new_size], ok |-> TRUE]
    ELSE LET C == Construct(M, v.data_, 0,
                            FillValues(new_size - v.size_, ArgValue(M, v, arg)),
                            CtorFailAt(f))
         IN  SetSize([M |-> C.M, v |-> v, ok |-> C.ok], new_size)

\* Resize(new_size, const T& value), value given as a reference (arg): an
\* object outside the array, or an element of the array itself.
DoResizeValue(M, v, new_size, arg, f) ==
    IF new_size > v.capacity_
    THEN SetSize(Reallocate(M, v, new_size,
                            [j \in 1..(new_size - v.size_) |-> arg], f),
                 new_size)
    ELSE IF new_size < v.size_
    THEN [M |-> Destroy(M, v.data_, new_size, v.size_),
          v |-> [v EXCEPT !.size_ = new_size], ok |-> TRUE]
    ELSE LET C == Construct(M, v.data_, v.size_,
                            FillValues(new_size - v.size_, ArgValue(M, v, arg)),
                            CtorFailAt(f))
         IN  SetSize([M |-> C.M, v |-> v, ok |-> C.ok], new_size)

\* Resize(new_size) and Resize(new_size, value) with a value outside the array:
\* fill is the value of each new element.
DoResize(M, v, new_size, fill, f) == DoResizeValue(M, v, new_size, External(fill), f)

\* Reserve that adopts the new storage and forgets capacity_ = new_cap.
DoReserveKeepsCapacity(M, v, new_cap, f) ==
    IF new_cap > v.capacity_
    THEN [Reallocate(M, v, new_cap, <<>>, f) EXCEPT !.v.capacity_ = v.capacity_]
    ELSE [M |-> M, v |-> v, ok |-> TRUE]

\* Reserve(new_cap)
DoReserve(M, v, new_cap, f) ==
    IF new_cap > v.capacity_ THEN Reallocate(M, v, new_cap, <<>>, f)
    ELSE [M |-> M, v |-> v, ok |-> TRUE]

\* ShrinkToFit()
DoShrinkToFit(M, v, f) ==
    IF v.size_ = 0
    THEN [M |-> Deallocate(M, v.data_),
          v |-> [v EXCEPT !.data_ = NullPtr, !.capacity_ = 0], ok |-> TRUE]
    ELSE IF v.size_ < v.capacity_ THEN Reallocate(M, v, v.size_, <<>>, f)
    ELSE [M |-> M, v |-> v, ok |-> TRUE]

\* A growth by one slot instead of a doubling.
NewCapacityByOne(capacity) == capacity + 1

\* new_capacity of PushBack / EmplaceBack
NewCapacity(capacity) == IF capacity = 0 THEN 1 ELSE capacity * 2

\* The body PushBack(const T&), PushBack(T&&) and EmplaceBack(args...) share:
\* arg is what the new element is constructed from.
DoPushBack(M, v, arg, f) ==
    IF v.size_ = v.capacity_
    THEN SetSize(Reallocate(M, v, NewCapacity(v.capacity_), <<arg>>, f),
                 v.size_ + 1)
    ELSE LET C == Construct(M, v.data_, v.size_, <<ArgValue(M, v, arg)>>, CtorFailAt(f))
         IN  SetSize([M |-> C.M, v |-> v, ok |-> C.ok], v.size_ + 1)

\* PopBack()
DoPopBack(M, v) ==
    IF v.size_ > 0
    THEN [M |-> Destroy(M, v.data_, v.size_ - 1, v.size_),
          v |-> [v EXCEPT !.size_ = @ - 1], ok |-> TRUE]
    ELSE [M |-> M, v |-> v, ok |-> TRUE]

\* The operations on two instances take the instances V (a function of Inst)
\* and the two identities, and give [M, V, ok].

\* A move constructor that leaves other as it was.
MoveConstructKeepsSource(M, V, i, j) ==
    [M |-> M, V |-> [V EXCEPT ![i] = V[j]], ok |-> TRUE]

\* Vector(Vector&& other), constructing instance i from instance j.
MoveConstruct(M, V, i, j) ==
    [M |-> M, V |-> [V EXCEPT ![i] = V[j], ![j] = EmptyVec], ok |-> TRUE]

\* Swap(other)
DoSwap(M, V, i, j) ==
    [M |-> M, V |-> [V EXCEPT ![i] = V[j], ![j] = V[i]], ok |-> TRUE]

\* Move assignment without the test this != &other.
MoveAssignUnguarded(M, V, i, j) ==
    [M |-> Deallocate(DoClear(M, V[i]).M, V[i].data_),
     V |-> [V EXCEPT ![i] = V[j], ![j] = EmptyVec], ok |-> TRUE]

\* operator=(Vector&& other)
MoveAssign(M, V, i, j) ==
    IF i # j
    THEN [M |-> Deallocate(DoClear(M, V[i]).M, V[i].data_),
          V |-> [V EXCEPT ![i] = V[j], ![j] = EmptyVec], ok |-> TRUE]
    ELSE [M |-> M, V |-> V, ok |-> TRUE]

\* Copy assignment without the test this != &other.
CopyAssignUnguarded(M, V, i, j, f) ==
    LET tmp == CopyConstruct(M, V[j], f)
    IN  IF ~tmp.ok THEN [M |-> tmp.M, V |-> V, ok |-> FALSE]
        ELSE [M |-> Destruct(tmp.M, V[i]), V |-> [V EXCEPT ![i] = tmp.v], ok |-> TRUE]

\* operator=(const Vector& other): Vector tmp(other); Swap(tmp); and tmp, which
\* now holds the old state of *this, is destructed at the end of the block.
CopyAssign(M, V, i, j, f) ==
    IF i # j
    THEN LET tmp == CopyConstruct(M, V[j], f)
         IN  IF ~tmp.ok THEN [M |-> tmp.M, V |-> V, ok |-> FALSE]
             ELSE [M |-> Destruct(tmp.M, V[i]), V |-> [V EXCEPT ![i] = tmp.v],
                   ok |-> TRUE]
    ELSE [M |-> M, V |-> V, ok |-> TRUE]

\* At with the bound test index > size_.
DoAtInclusive(M, v, index) ==
    IF index > v.size_ THEN [ok |-> FALSE, ret |-> 0]
    ELSE [ok |-> TRUE,
          ret |-> IF index < Len(Block(M, v.data_)) THEN Block(M, v.data_)[index + 1]
                  ELSE Raw]

\* At(index): [ok, ret]; ok = FALSE is ArrayOutOfRange.
DoAt(M, v, index) ==
    IF index >= v.size_ THEN [ok |-> FALSE, ret |-> 0]
    ELSE [ok |-> TRUE, ret |-> Block(M, v.data_)[index + 1]]

\* operator==: same size and std::equal over the live elements.
VecEqual(M, a, b) ==
    /\ a.size_ = b.size_
    /\ \A k \in 1..a.size_ : Block(M, a.data_)[k] = Block(M, b.data_)[k]

\* operator!=
VecNotEqual(M, a, b) == ~VecEqual(M, a, b)

\* std::lexicographical_compare over a[k..] and b[k..]: at the first position
\* where one element is less than the other that decides; when a range runs out,
\* the first is less exactly if it ran out and the second did not.
RECURSIVE LexicographicalCompare(_, _, _)
LexicographicalCompare(a, b, k) ==
    IF k > Len(a) \/ k > Len(b) THEN k > Len(a) /\ k <= Len(b)
    ELSE IF a[k] < b[k] THEN TRUE
    ELSE IF b[k] < a[k] THEN FALSE
    ELSE LexicographicalCompare(a, b, k + 1)

\* An operator< that compares the whole storage blocks, not the live elements.
VecLessOverCapacity(M, a, b) ==
    LexicographicalCompare(Block(M, a.data_), Block(M, b.data_), 1)

\* operator<
VecLess(M, a, b) == LexicographicalCompare(Contents(M, a), Contents(M, b), 1)

\* operator>: other < *this
VecGreater(M, a, b) == VecLess(M, b, a)

\* operator<=: !(other < *this)
VecLessEqual(M, a, b) == ~VecLess(M, b, a)

\* operator>=: !(*this < other)
VecGreaterEqual(M, a, b) == ~VecLess(M, a, b)

\* PushBack(T&& value)
DoPushBackMove(M, v, arg, f) == DoPushBack(M, v, arg, f)

\* EmplaceBack(Args&&... args)
DoEmplaceBack(M, v, arg, f) == DoPushBack(M, v, arg, f)

\* ------------------------------------------------------------ state machine
\* faults holds the lifetime errors of the last call, last the call itself.
M0 == [heap |-> heap, faults |-> {}]

Undefined == {"destroy_raw", "double_free", "wild_destroy", "wild_construct"}

\* A call: the operation, the instance it is called on, the other instance it
\* takes (0: none), its argument (a size, an index or a value), whether that
\* argument refers to an element of the array itself, whether the call took a
\* reallocating branch, whether it returned, and a second argument or the result.
Call(op, self, other, arg, own, ok, ret) ==
    [op |-> op, self |-> self, other |-> other, arg |-> arg, own |-> own,
     grow |-> FALSE, ok |-> ok, ret |-> ret]

\* What last records of a call that may throw: the call and its arguments when
\* it returns, the call alone when an exception leaves it.
Ret(R, grow, op, self, other, arg, own, ret) ==
    IF R.ok THEN [Call(op, self, other, arg, own, TRUE, ret) EXCEPT !.grow = grow]
    ELSE [Call(op, self, other, 0, FALSE, FALSE, 0) EXCEPT !.grow = grow]

\* The state after a call with result R = [M, V, ok].  A call that ran into
\* undefined behaviour either carries on or brings the process down.
Commit(R, call) ==
    /\ heap' = R.M.heap
    /\ vec' = R.V
    /\ faults' = R.M.faults
    /\ crashed' \in (IF R.M.faults \cap Undefined # {} THEN BOOLEAN ELSE {FALSE})
    /\ last' = call
    /\ frame' = frame

One(i, R) == [M |-> R.M, V |-> [vec EXCEPT ![i] = R.v], ok |-> R.ok]

\* The chosen point throws only if the call reaches it.
Reached(f, R) == f = NoFail \/ ~R.ok

Alive(i) == ~crashed /\ vec[i].alive
Dead(i) == ~crashed /\ ~vec[i].alive

\* Which branch a call takes: growth beyond the capacity, a push onto a full
\* array, a shrink of an array with spare capacity.
Beyond(i, n) == n > vec[i].capacity_
Full(i) == vec[i].size_ = vec[i].capacity_
Slack(i) == 0 < vec[i].size_ /\ vec[i].size_ < vec[i].capacity_

\* The call in progress when a reallocating operation is followed statement by
\* statement: the statement to run next (pc), the operation and its instance,
\* its locals new_cap (new_capacity), new_size and new_data, what the new
\* elements are constructed from (args), the throwing point met (f), what last
\* will record (arg, own, ret), and the heap and the instance as they were when
\* the call was made (before).  No call is in progress when pc = "idle".
NoFrame ==
    [pc |-> "idle", op |-> "", self |-> 0, new_cap |-> 0, new_size |-> 0,
     args |-> <<>>, new_data |-> NullPtr, f |-> NoFail,
     arg |-> 0, own |-> FALSE, ret |-> 0,
     before |-> [heap |-> [r \in Region |-> <<>>], v |-> NoVec]]

SeqsOver(S, n) == UNION {[1..k -> S] : k \in 0..n}

Init ==
    /\ heap = [r \in Region |-> <<>>]
    /\ vec = [i \in Inst |-> NoVec]
    /\ faults = {}
    /\ crashed = FALSE
    /\ last = Call("init", 0, 0, 0, FALSE, TRUE, 0)
    /\ frame = NoFrame

DefaultCtor(i) ==
    /\ Dead(i)
    /\ Commit([M |-> M0, V |-> [vec EXCEPT ![i] = EmptyVec], ok |-> TRUE],
              Call("Vector()", i, 0, 0, FALSE, TRUE, 0))

SizedCtor(i, n, f) ==
    /\ Dead(i)
    /\ \E R \in {ConstructVector(M0, n, DefaultValues(n), f)} :
           /\ Reached(f, R)
           /\ Commit(One(i, R), Ret(R, FALSE, "Vector(size)", i, 0, n, FALSE, 0))

FillCtor(i, n, value, f) ==
    /\ Dead(i)
    /\ \E R \in {ConstructVector(M0, n, FillValues(n, value), f)} :
           /\ Reached(f, R)
           /\ Commit(One(i, R), Ret(R, FALSE, "Vector(size,value)", i, 0, n, FALSE, value))

RangeCtor(i, vals, f) ==
    /\ Dead(i)
    /\ \E R \in {ConstructVector(M0, Len(vals), vals, f)} :
           /\ Reached(f, R)
           /\ Commit(One(i, R),
                     Ret(R, FALSE, "Vector(first,last)", i, 0, Len(vals), FALSE, 0))

ListCtor(i, vals, f) ==
    /\ Dead(i)
    /\ \E R \in {ConstructVector(M0, Len(vals), vals, f)} :
           /\ Reached(f, R)
           /\ Commit(One(i, R), Ret(R, FALSE, "Vector(init)", i, 0, Len(vals), FALSE, 0))

CopyCtor(i, j, f) ==
    /\ Dead(i) /\ Alive(j)
    /\ \E R \in {CopyConstruct(M0, vec[j], f)} :
           /\ Reached(f, R)
           /\ Commit(One(i, R), Ret(R, FALSE, "Vector(const Vector&)", i, j, 0, FALSE, 0))

MoveCtor(i, j) ==
    /\ Dead(i) /\ Alive(j)
    /\ Commit(MoveConstruct(M0, vec, i, j),
              Call("Vector(Vector&&)", i, j, 0, FALSE, TRUE, 0))

Dtor(i) ==
    /\ Alive(i)
    /\ Commit([M |-> Destruct(M0, vec[i]), V |-> [vec EXCEPT ![i] = NoVec], ok |-> TRUE],
              Call("~Vector", i, 0, 0, FALSE, TRUE, 0))

CopyAssignment(i, j, f) ==
    /\ Alive(i) /\ Alive(j)
    /\ \E R \in {CopyAssign(M0, vec, i, j, f)} :
           /\ Reached(f, R)
           /\ Commit(R, Ret(R, FALSE, "operator=(const Vector&)", i, j, 0, FALSE, 0))

MoveAssignment(i, j) ==
    /\ Alive(i) /\ Alive(j)
    /\ Commit(MoveAssign(M0, vec, i, j),
              Call("operator=(Vector&&)", i, j, 0, FALSE, TRUE, 0))

Swap(i, j) ==
    /\ Alive(i) /\ Alive(j)
    /\ Commit(DoSwap(M0, vec, i, j), Call("Swap", i, j, 0, FALSE, TRUE, 0))

At(i, index) ==
    /\ Alive(i)
    /\ \E A \in {DoAt(M0, vec[i], index)} :
           Commit([M |-> M0, V |-> vec, ok |-> A.ok],
                  Call("At", i, 0, index, FALSE, A.ok, A.ret))

Resize(i, n, f) ==
    /\ Alive(i)
    /\ \E R \in {DoResize(M0, vec[i], n, DefaultVal, f)} :
           /\ Reached(f, R)
           /\ Commit(One(i, R), Ret(R, Beyond(i, n), "Resize(n)", i, 0, n, FALSE, 0))

ResizeValue(i, n, value, f) ==
    /\ Alive(i)
    /\ \E R \in {DoResize(M0, vec[i], n, value, f)} :
           /\ Reached(f, R)
           /\ Commit(One(i, R), Ret(R, Beyond(i, n), "Resize(n,value)", i, 0, n, FALSE, value))

\* v.Resize(n, v[index]): value refers to an element of the array itself; the
\* call is recorded with the value that element has when the call is made.
ResizeElement(i, n, index, f) ==
    /\ Alive(i)
    /\ index < vec[i].size_
    /\ \E R \in {DoResizeValue(M0, vec[i], n, Element(index), f)} :
           /\ Reached(f, R)
           /\ Commit(One(i, R),
                     Ret(R, Beyond(i, n), "Resize(n,value)", i, 0, n, TRUE,
                         Contents(M0, vec[i])[index + 1]))

Reserve(i, n, f) ==
    /\ Alive(i)
    /\ \E R \in {DoReserve(M0, vec[i], n, f)} :
           /\ Reached(f, R)
           /\ Commit(One(i, R), Ret(R, Beyond(i, n), "Reserve", i, 0, n, FALSE, 0))

ShrinkToFit(i, f) ==
    /\ Alive(i)
    /\ \E R \in {DoShrinkToFit(M0, vec[i], f)} :
           /\ Reached(f, R)
           /\ Commit(One(i, R), Ret(R, Slack(i), "ShrinkToFit", i, 0, 0, FALSE, 0))

Clear(i) ==
    /\ Alive(i)
    /\ Commit(One(i, DoClear(M0, vec[i])), Call("Clear", i, 0, 0, FALSE, TRUE, 0))

\* PushBack(const T& value), value an object outside the array.
PushBack(i, value, f) ==
    /\ Alive(i)
    /\ \E R \in {DoPushBack(M0, vec[i], External(value), f)} :
           /\ Reached(f, R)
           /\ Commit(One(i, R), Ret(R, Full(i), "PushBack(const T&)", i, 0, value, FALSE, 0))

\* v.PushBack(v[index]): value refers to an element of the array itself; the
\* call is recorded with the value that element has when the call is made.
PushBackElement(i, index, f) ==
    /\ Alive(i)
    /\ index < vec[i].size_
    /\ \E R \in {DoPushBack(M0, vec[i], Element(index), f)} :
           /\ Reached(f, R)
           /\ Commit(One(i, R),
                     Ret(R, Full(i), "PushBack(const T&)", i, 0,
                         Contents(M0, vec[i])[index + 1], TRUE, index))

PushBackMove(i, value, f) ==
    /\ Alive(i)
    /\ \E R \in {DoPushBackMove(M0, vec[i], External(value), f)} :
           /\ Reached(f, R)
           /\ Commit(One(i, R), Ret(R, Full(i), "PushBack(T&&)", i, 0, value, FALSE, 0))

EmplaceBack(i, value, f) ==
    /\ Alive(i)
    /\ \E R \in {DoEmplaceBack(M0, vec[i], External(value), f)} :
           /\ Reached(f, R)
           /\ Commit(One(i, R), Ret(R, Full(i), "EmplaceBack", i, 0, value, FALSE, 0))

PopBack(i) ==
    /\ Alive(i)
    /\ Commit(One(i, DoPopBack(M0, vec[i])), Call("PopBack", i, 0, 0, FALSE, TRUE, 0))

\* A comparison i op j: both arrays are left alone, the result is returned
\* (1: true, 0: false).
Compared(op, i, j, result) ==
    /\ Alive(i) /\ Alive(j)
    /\ Commit([M |-> M0, V |-> vec, ok |-> TRUE],
              Call(op, i, j, 0, FALSE, TRUE, IF result THEN 1 ELSE 0))

Equal(i, j) == Compared("operator==", i, j, VecEqual(M0, vec[i], vec[j]))
NotEqual(i, j) == Compared("operator!=", i, j, VecNotEqual(M0, vec[i], vec[j]))
Less(i, j) == Compared("operator<", i, j, VecLess(M0, vec[i], vec[j]))
Greater(i, j) == Compared("operator>", i, j, VecGreater(M0, vec[i], vec[j]))
LessEqual(i, j) == Compared("operator<=", i, j, VecLessEqual(M0, vec[i], vec[j]))
GreaterEqual(i, j) == Compared("operator>=", i, j, VecGreaterEqual(M0, vec[i], vec[j]))

\* The model's bound on growth: no capacity beyond c.
Within(c) == \A i \in Inst : vec'[i].capacity_ <= c

\* One instance, every operation on it (assignment and Swap with itself included).
Solo == {i \in Inst : \A j \in Inst : i <= j}

Next ==
    \/ \E i \in Solo : DefaultCtor(i)
    \/ \E i \in Solo, n \in 0..MaxCap, f \in Fail(MaxCap) : SizedCtor(i, n, f)
    \/ \E i \in Solo, n \in 0..MaxCap, value \in Values, f \in Fail(MaxCap) :
          FillCtor(i, n, value, f)
    \/ \E i \in Solo, vals \in SeqsOver(Values, MaxCap), f \in Fail(MaxCap) : RangeCtor(i, vals, f)
    \/ \E i \in Solo, vals \in SeqsOver(Values, MaxCap), f \in Fail(MaxCap) : ListCtor(i, vals, f)
    \/ \E i \in Solo : Dtor(i)
    \/ \E i \in Solo, f \in Fail(MaxCap) : CopyAssignment(i, i, f)
    \/ \E i \in Solo : MoveAssignment(i, i)
    \/ \E i \in Solo : Swap(i, i)
    \/ \E i \in Solo, index \in 0..MaxCap : At(i, index)
    \/ \E i \in Solo, n \in 0..MaxCap, f \in Fail(MaxCap) : Resize(i, n, f)
    \/ \E i \in Solo, n \in 0..MaxCap, value \in Values, f \in Fail(MaxCap) :
          ResizeValue(i, n, value, f)
    \/ \E i \in Solo, n \in 0..MaxCap, f \in Fail(MaxCap) : Reserve(i, n, f)
    \/ \E i \in Solo, f \in Fail(MaxCap) : ShrinkToFit(i, f)
    \/ \E i \in Solo : Clear(i)
    \/ \E i \in Solo, value \in Values, f \in Fail(MaxCap) :
          PushBack(i, value, f) /\ Within(MaxCap)
    \/ \E i \in Solo, index \in 0..MaxCap, f \in Fail(MaxCap) :
          PushBackElement(i, index, f) /\ Within(MaxCap)
    \/ \E i \in Solo, value \in Values, f \in Fail(MaxCap) :
          PushBackMove(i, value, f) /\ Within(MaxCap)
    \/ \E i \in Solo, value \in Values, f \in Fail(MaxCap) :
          EmplaceBack(i, value, f) /\ Within(MaxCap)
    \/ \E i \in Solo : PopBack(i)

Spec == Init /\ [][Next]_vars

\* Several instances, with the operations that create one from another, assign
\* one to another and exchange two, and the mutators on each.
NextPair ==
    \/ \E i \in Inst : DefaultCtor(i)
    \/ \E i \in Inst, vals \in SeqsOver(PairValues, PairCap), f \in Fail(PairCap) :
          RangeCtor(i, vals, f)
    \/ \E i \in Inst, j \in Inst, f \in Fail(PairCap) : CopyCtor(i, j, f)
    \/ \E i \in Inst, j \in Inst : MoveCtor(i, j)
    \/ \E i \in Inst : Dtor(i)
    \/ \E i \in Inst, j \in Inst, f \in Fail(PairCap) : CopyAssignment(i, j, f)
    \/ \E i \in Inst, j \in Inst : MoveAssignment(i, j)
    \/ \E i \in Inst, j \in Inst : Swap(i, j)
    \/ \E i \in Inst, n \in 0..PairCap, f \in Fail(PairCap) : Resize(i, n, f)
    \/ \E i \in Inst, n \in 0..PairCap, value \in PairValues, f \in Fail(PairCap) :
          ResizeValue(i, n, value, f)
    \/ \E i \in Inst, n \in 0..PairCap, f \in Fail(PairCap) : Reserve(i, n, f)
    \/ \E i \in Inst, f \in Fail(PairCap) : ShrinkToFit(i, f)
    \/ \E i \in Inst : Clear(i)
    \/ \E i \in Inst, value \in PairValues, f \in Fail(PairCap) :
          PushBack(i, value, f) /\ Within(PairCap)
    \/ \E i \in Inst, value \in PairValues, f \in Fail(PairCap) :
          PushBackMove(i, value, f) /\ Within(PairCap)
    \/ \E i \in Inst, value \in PairValues, f \in Fail(PairCap) :
          EmplaceBack(i, value, f) /\ Within(PairCap)
    \/ \E i \in Inst : PopBack(i)

SpecPair == Init /\ [][NextPair]_vars

\* One instance built from a sequence of values and resized, the value of
\* Resize(n, value) being an object outside the array or one of its elements.
NextResize ==
    \/ \E i \in Solo, vals \in SeqsOver(Values, MaxCap), f \in Fail(MaxCap) : RangeCtor(i, vals, f)
    \/ \E i \in Solo : Dtor(i)
    \/ \E i \in Solo, n \in 0..MaxCap, f \in Fail(MaxCap) : Resize(i, n, f)
    \/ \E i \in Solo, n \in 0..MaxCap, value \in Values, f \in Fail(MaxCap) :
          ResizeValue(i, n, value, f)
    \/ \E i \in Solo, n \in 0..MaxCap, index \in 0..MaxCap, f \in Fail(MaxCap) :
          ResizeElement(i, n, index, f)
    \/ \E i \in Solo, n \in 0..MaxCap, f \in Fail(MaxCap) : Reserve(i, n, f)
    \/ \E i \in Solo : PopBack(i)

SpecResize == Init /\ [][NextResize]_vars

\* Two arrays built from sequences of values, given spare capacity and
\* shortened, and compared with each of the six operators.
Two == {i \in Inst : i <= 2}

NextCompare ==
    \/ \E i \in Two, vals \in SeqsOver(Values, MaxCap) : RangeCtor(i, vals, NoFail)
    \/ \E i \in Two : Dtor(i)
    \/ \E i \in Two, n \in 0..MaxCap, f \in {NoFail, AllocFail} : Reserve(i, n, f)
    \/ \E i \in Two : PopBack(i)
    \/ \E i \in Two, j \in Two : Equal(i, j)
    \/ \E i \in Two, j \in Two : NotEqual(i, j)
    \/ \E i \in Two, j \in Two : Less(i, j)
    \/ \E i \in Two, j \in Two : Greater(i, j)
    \/ \E i \in Two, j \in Two : LessEqual(i, j)
    \/ \E i \in Two, j \in Two : GreaterEqual(i, j)

SpecCompare == Init /\ [][NextCompare]_vars

\* Two arrays built by each of the constructors (a copy from the other array,
\* which PopBack leaves with spare capacity), every construction step failing in turn.
NextCtor ==
    \/ \E i \in Two : DefaultCtor(i)
    \/ \E i \in Two, n \in 0..MaxCap, f \in Fail(MaxCap) : SizedCtor(i, n, f)
    \/ \E i \in Two, n \in 0..MaxCap, value \in Values, f \in Fail(MaxCap) :
          FillCtor(i, n, value, f)
    \/ \E i \in Two, vals \in SeqsOver(Values, MaxCap), f \in Fail(MaxCap) : RangeCtor(i, vals, f)
    \/ \E i \in Two, vals \in SeqsOver(Values, MaxCap), f \in Fail(MaxCap) : ListCtor(i, vals, f)
    \/ \E i \in Two, j \in Two, f \in Fail(MaxCap) : CopyCtor(i, j, f)
    \/ \E i \in Two : Dtor(i)
    \/ \E i \in Two : PopBack(i)

SpecCtor == Init /\ [][NextCtor]_vars

\* ----------------------------------------- reallocation, statement by statement
\* The reallocating branch of Reserve, Resize, ShrinkToFit, PushBack and
\* EmplaceBack, one action per statement of the source, in the order of the source.
Ms == [heap |-> heap, faults |-> faults]

Idle == ~crashed /\ frame.pc = "idle"
At_(pc) == ~crashed /\ frame.pc = pc

\* The call is made on the reallocating branch: the locals are set.
Begin(i, op, new_cap, new_size, args, arg, own, ret) ==
    /\ Alive(i) /\ frame.pc = "idle"
    /\ frame' = [pc |-> "allocate", op |-> op, self |-> i, new_cap |-> new_cap,
                 new_size |-> new_size, args |-> args, new_data |-> NullPtr,
                 f |-> NoFail, arg |-> arg, own |-> own, ret |-> ret,
                 before |-> [heap |-> heap, v |-> vec[i]]]
    /\ faults' = {}
    /\ UNCHANGED <<heap, vec, crashed, last>>

BeginReserve(i, n) ==
    /\ Beyond(i, n)
    /\ Begin(i, "Reserve", n, vec[i].size_, <<>>, n, FALSE, 0)

BeginResize(i, n) ==
    /\ Beyond(i, n)
    /\ Begin(i, "Resize(n)", n, n,
             [j \in 1..(n - vec[i].size_) |-> External(DefaultVal)], n, FALSE, 0)

BeginResizeValue(i, n, value) ==
    /\ Beyond(i, n)
    /\ Begin(i, "Resize(n,value)", n, n,
             [j \in 1..(n - vec[i].size_) |-> External(value)], n, FALSE, value)

BeginShrinkToFit(i) ==
    /\ Slack(i)
    /\ Begin(i, "ShrinkToFit", vec[i].size_, vec[i].size_, <<>>, 0, FALSE, 0)

BeginPushBack(i, value) ==
    /\ Full(i)
    /\ Begin(i, "PushBack(const T&)", NewCapacity(vec[i].capacity_), vec[i].size_ + 1,
             <<External(value)>>, value, FALSE, 0)

BeginPushBackMove(i, value) ==
    /\ Full(i)
    /\ Begin(i, "PushBack(T&&)", NewCapacity(vec[i].capacity_), vec[i].size_ + 1,
             <<External(value)>>, value, FALSE, 0)

BeginEmplaceBack(i, value) ==
    /\ Full(i)
    /\ Begin(i, "EmplaceBack", NewCapacity(vec[i].capacity_), vec[i].size_ + 1,
             <<External(value)>>, value, FALSE, 0)

\* The state after a statement that leaves memory M and goes on at pc.
Goes(M, pc, f) ==
    /\ heap' = M.heap
    /\ faults' = M.faults
    /\ crashed' \in (IF (M.faults \ faults) \cap Undefined # {} THEN BOOLEAN ELSE {FALSE})
    /\ frame' = [frame EXCEPT !.pc = pc, !.f = f]
    /\ UNCHANGED <<vec, last>>

\* The call is over: it returned (ok) or an exception left it.
Returns(M, V, ok) ==
    /\ heap' = M.heap
    /\ vec' = V
    /\ faults' = M.faults
    /\ crashed' = FALSE
    /\ last' = Ret([ok |-> ok], TRUE, frame.op, frame.self, 0, frame.arg, frame.own,
                   frame.ret)
    /\ frame' = NoFrame

\* Pointer new_data = Allocate(new_cap); it stands before the try block, so
\* std::bad_alloc leaves the call.
StepAllocate(throws) ==
    /\ At_("allocate")
    /\ IF throws THEN Returns(Ms, vec, FALSE)
       ELSE /\ heap' = Allocate(Ms, frame.new_cap).heap
            /\ frame' = [frame EXCEPT !.pc = "move",
                                      !.new_data = AllocatePtr(Ms, frame.new_cap)]
            /\ UNCHANGED <<vec, faults, crashed, last>>

\* std::uninitialized_move(data_, data_ + size_, new_data); the failAt-th move
\* throwing (0: none).  The new elements, if the operation has any, come next.
StepMove(failAt) ==
    /\ At_("move")
    /\ failAt \in 0..vec[frame.self].size_
    /\ \E R \in {UninitializedMove(Ms, vec[frame.self].data_, vec[frame.self].size_,
                                    frame.new_data, failAt)} :
           IF ~R.ok THEN Goes(R.M, "catch_destroy", [at |-> "move", k |-> failAt])
           ELSE IF frame.args = <<>> THEN Goes(R.M, "destroy_old", NoFail)
           ELSE Goes(R.M, "construct", NoFail)

\* The construction of the new elements at new_data + size_ (default
\* construction, fill, placement new), the failAt-th throwing (0: none).
StepConstruct(failAt) ==
    /\ At_("construct")
    /\ failAt \in 0..Len(frame.args)
    /\ \E R \in {Construct(Ms, frame.new_data, vec[frame.self].size_,
                            [j \in 1..Len(frame.args) |->
                                ArgValue(Ms, vec[frame.self], frame.args[j])],
                            failAt)} :
           IF ~R.ok THEN Goes(R.M, "catch_destroy", [at |-> "ctor", k |-> failAt])
           ELSE Goes(R.M, "destroy_old", NoFail)

\* A catch block that destroys the elements of data_, not those of new_data.
StepCatchDestroyOld ==
    /\ At_("catch_destroy")
    /\ Goes(Destroy(Ms, vec[frame.self].data_, 0, vec[frame.self].size_),
            "catch_deallocate", frame.f)

\* catch (...) { std::destroy(new_data, new_data + size_);
StepCatchDestroy ==
    /\ At_("catch_destroy")
    /\ Goes(Destroy(Ms, frame.new_data, 0, vec[frame.self].size_), "catch_deallocate",
            frame.f)

\*               Deallocate(new_data); throw; }
StepCatchDeallocate ==
    /\ At_("catch_deallocate")
    /\ Returns(Deallocate(Ms, frame.new_data), vec, FALSE)

\* std::destroy(data_, data_ + size_);
StepDestroyOld ==
    /\ At_("destroy_old")
    /\ Goes(Destroy(Ms, vec[frame.self].data_, 0, vec[frame.self].size_),
            "deallocate_old", NoFail)

\* Deallocate(data_);
StepDeallocateOld ==
    /\ At_("deallocate_old")
    /\ Goes(Deallocate(Ms, vec[frame.self].data_), "adopt", NoFail)

\* data_ = new_data; capacity_ = new_cap; size_ = new_size; and the call returns.
StepAdopt ==
    /\ At_("adopt")
    /\ Returns(Ms,
               [vec EXCEPT ![frame.self] =
                   [@ EXCEPT !.data_ = frame.new_data, !.capacity_ = frame.new_cap,
                             !.size_ = frame.new_size]],
               TRUE)

\* The model's bound on growth, for a call in progress.
WithinFrame(c) == frame'.new_cap <= c

\* One instance: construction, destruction, the operations that never
\* reallocate, and the reallocating operations statement by statement.
NextSteps ==
    \/ \E i \in Solo, vals \in SeqsOver(Values, MaxCap) : Idle /\ RangeCtor(i, vals, NoFail)
    \/ \E i \in Solo : Idle /\ Dtor(i)
    \/ \E i \in Solo : Idle /\ PopBack(i)
    \/ \E i \in Solo, n \in 0..MaxCap : BeginReserve(i, n)
    \/ \E i \in Solo, n \in 0..MaxCap : BeginResize(i, n)
    \/ \E i \in Solo, n \in 0..MaxCap, value \in Values : BeginResizeValue(i, n, value)
    \/ \E i \in Solo : BeginShrinkToFit(i)
    \/ \E i \in Solo, value \in Values : BeginPushBack(i, value) /\ WithinFrame(MaxCap)
    \/ \E i \in Solo, value \in Values : BeginPushBackMove(i, value) /\ WithinFrame(MaxCap)
    \/ \E i \in Solo, value \in Values : BeginEmplaceBack(i, value) /\ WithinFrame(MaxCap)
    \/ \E throws \in BOOLEAN : StepAllocate(throws)
    \/ \E failAt \in 0..MaxCap : StepMove(failAt)
    \/ \E failAt \in 0..MaxCap : StepConstruct(failAt)
    \/ StepCatchDestroy
    \/ StepCatchDeallocate
    \/ StepDestroyOld
    \/ StepDeallocateOld
    \/ StepAdopt

SpecSteps == Init /\ [][NextSteps]_vars

\* One instance pushed onto up to the capacity PushCap, from the empty array
\* and from arrays that Reserve, PopBack and Clear have left with any capacity.
\* The value pushed is a default-constructed T; the allocation, the first move
\* or the construction of the new element may throw.
NextPush ==
    \/ \E i \in Solo : DefaultCtor(i)
    \/ \E i \in Solo : Dtor(i)
    \/ \E i \in Solo, n \in 0..PushCap, f \in Fail(1) : Reserve(i, n, f)
    \/ \E i \in Solo : Clear(i)
    \/ \E i \in Solo : PopBack(i)
    \/ \E i \in Solo, f \in Fail(1) : PushBack(i, DefaultVal, f) /\ Within(PushCap)
    \/ \E i \in Solo, index \in 0..PushCap, f \in Fail(1) :
          PushBackElement(i, index, f) /\ Within(PushCap)
    \/ \E i \in Solo, f \in Fail(1) : PushBackMove(i, DefaultVal, f) /\ Within(PushCap)
    \/ \E i \in Solo, f \in Fail(1) : EmplaceBack(i, DefaultVal, f) /\ Within(PushCap)

SpecPush == Init /\ [][NextPush]_vars

\* ------------------------------------------------------------------ claims
\* The elements of instance i: now, and after the step.
Elems(i) == Contents([heap |-> heap, faults |-> {}], vec[i])
ElemsAfter(i) == Contents([heap |-> heap', faults |-> {}], vec'[i])

PushOps == {"PushBack(const T&)", "PushBack(T&&)", "EmplaceBack"}
ResizeOps == {"Resize(n)", "Resize(n,value)"}
GrowthOps == PushOps \cup ResizeOps \cup {"Reserve"}

\* C1: a growth operation (Reserve, Resize, PushBack, EmplaceBack on the
\* reallocating branch) that fails at the allocation, at an element move or at
\* the construction of a new element leaves the array's length, capacity and
\* element values exactly as they were before the call.
C1_FailedGrowthLeavesArrayUntouched ==
    [][(last'.op \in GrowthOps /\ last'.grow /\ ~last'.ok)
          => /\ vec'[last'.self].size_ = vec[last'.self].size_
             /\ vec'[last'.self].capacity_ = vec[last'.self].capacity_
             /\ ElemsAfter(last'.self) = Elems(last'.self)]_vars

\* Every allocated region is the storage of exactly one live instance, and its
\* slots [0, size_) hold live elements while the rest are raw.
Owners(r) == {i \in Inst : vec[i].alive /\ vec[i].data_ = r}
HeapExact ==
    \A r \in Region :
        IF heap[r] = <<>> THEN Owners(r) = {}
        ELSE /\ Cardinality(Owners(r)) = 1
             /\ \A i \in Owners(r), k \in DOMAIN heap[r] :
                    (heap[r][k] # Raw) <=> (k <= vec[i].size_)

\* C2: over any sequence of constructions, mutating operations (failing ones
\* included) and destructions, every element constructed is destroyed exactly
\* once, no destroy is applied to a raw slot, and every region allocated is
\* released exactly once: no call makes a lifetime error, and the heap holds
\* exactly the storage and the elements of the live instances.
C2_LifetimesExact == faults = {} /\ (~crashed => HeapExact)

\* C3: every instance has 0 <= size_ <= capacity_, and a non-null data_ exactly
\* when capacity_ > 0, in every reachable state (after failed calls, for a
\* moved-from instance and for one built with size 0 too).
C3_SizeCapacityStorage ==
    \A i \in Inst :
        vec[i].alive =>
            /\ 0 <= vec[i].size_
            /\ vec[i].size_ <= vec[i].capacity_
            /\ (vec[i].data_ # NullPtr) <=> (vec[i].capacity_ > 0)

C3_Witness ==
    /\ last.op = "Vector(Vector&&)"
    /\ vec[last.other].alive /\ vec[last.other].data_ = NullPtr
    /\ vec[last.self].data_ # NullPtr
    /\ vec[last.self].size_ < vec[last.self].capacity_

\* C4: no two distinct live instances hold the same non-null storage region.
C4_NoSharedStorage ==
    \A i \in Inst, j \in Inst :
        (i # j /\ vec[i].alive /\ vec[j].alive /\ vec[i].data_ = vec[j].data_)
            => vec[i].data_ = NullPtr

C4_Witness ==
    /\ last.op = "operator=(const Vector&)" /\ last.ok /\ last.self # last.other
    /\ vec[last.self].data_ # NullPtr /\ vec[last.other].data_ # NullPtr
    /\ vec[last.self].data_ # vec[last.other].data_

\* C5: move construction and move assignment from a distinct source return
\* normally, leave the source empty (size 0, capacity 0, null storage) and give
\* the destination the source's region, size and capacity, the elements in that
\* region untouched; move assignment of an instance to itself changes nothing.
C5_MoveTransfersStorage ==
    [][/\ (last'.op = "Vector(Vector&&)"
            \/ (last'.op = "operator=(Vector&&)" /\ last'.self # last'.other))
          => /\ last'.ok /\ faults' = {}
             /\ vec'[last'.other] = EmptyVec
             /\ vec'[last'.self] = vec[last'.other]
             /\ vec[last'.other].data_ # NullPtr
                  => heap'[vec[last'.other].data_] = heap[vec[last'.other].data_]
       /\ (last'.op = "operator=(Vector&&)" /\ last'.self = last'.other)
          => /\ last'.ok /\ faults' = {}
             /\ UNCHANGED <<heap, vec>>]_vars

C5_Witness ==
    /\ last.op = "operator=(Vector&&)" /\ last.self # last.other
    /\ vec[last.self].size_ > 0
    /\ vec[last.other] = EmptyVec

Mutators ==
    GrowthOps \cup {"ShrinkToFit", "Clear", "PopBack"}

\* C6: a copy-constructed array has the capacity and the length of its source,
\* compares equal to it and has storage of its own; and no mutating operation
\* on one instance changes the length, capacity or elements of another.
C6_CopyIsEqualAndIndependent ==
    [][/\ (last'.op = "Vector(const Vector&)" /\ last'.ok)
          => /\ vec'[last'.self].capacity_ = vec[last'.other].capacity_
             /\ vec'[last'.self].size_ = vec[last'.other].size_
             /\ VecEqual([heap |-> heap', faults |-> {}],
                         vec'[last'.self], vec'[last'.other])
             /\ vec'[last'.self].data_ = vec'[last'.other].data_
                  => vec'[last'.self].data_ = NullPtr
             /\ vec'[last'.other] = vec[last'.other]
             /\ ElemsAfter(last'.other) = Elems(last'.other)
       /\ last'.op \in Mutators
          => \A a \in Inst \ {last'.self} :
                 /\ vec'[a] = vec[a]
                 /\ ElemsAfter(a) = Elems(a)]_vars

C6_Witness ==
    /\ last.op = "Vector(const Vector&)" /\ last.ok
    /\ vec[last.self].size_ > 1
    /\ Elems(last.self)[1] # Elems(last.self)[2]

\* C7: copy assignment t = s.  If it fails, t and s are as before; if it
\* succeeds, t has the length and the elements of s and s is unchanged; if t and
\* s are the same instance, nothing changes: no allocation, no element copied
\* or destroyed.
C7_CopyAssignment ==
    [][last'.op = "operator=(const Vector&)"
          => /\ (~last'.ok)
                  => /\ vec' = vec
                     /\ ElemsAfter(last'.self) = Elems(last'.self)
                     /\ ElemsAfter(last'.other) = Elems(last'.other)
             /\ (last'.ok /\ last'.self # last'.other)
                  => /\ vec'[last'.self].size_ = vec[last'.other].size_
                     /\ ElemsAfter(last'.self) = Elems(last'.other)
                     /\ vec'[last'.other] = vec[last'.other]
                     /\ ElemsAfter(last'.other) = Elems(last'.other)
             /\ last'.self = last'.other
                  => /\ last'.ok /\ faults' = {}
                     /\ UNCHANGED <<heap, vec>>]_vars

C7_Witness ==
    /\ last.op = "operator=(const Vector&)" /\ ~last.ok
    /\ vec[last.self].size_ > 0 /\ vec[last.other].size_ > 1

\* C8: At(i) throws ArrayOutOfRange exactly when i >= size_ (i = size_ and
\* i = 0 on an empty array included) and returns element i otherwise; in both
\* cases size, capacity and elements are unchanged.
C8_AtChecksBounds ==
    [][last'.op = "At"
          => /\ (~last'.ok) <=> (last'.arg >= vec[last'.self].size_)
             /\ last'.ok => last'.ret = Elems(last'.self)[last'.arg + 1]
             /\ UNCHANGED <<heap, vec>>]_vars

C8_Witness ==
    /\ last.op = "At" /\ ~last.ok
    /\ last.arg = vec[last.self].size_ /\ last.arg > 0

\* C9: every successful PushBack / EmplaceBack, reallocating or not, increases
\* the length by exactly 1, leaves the previous elements unchanged and in order,
\* and makes the new last element equal to the pushed value.
C9_PushBackAppendsValue ==
    [][(last'.op \in PushOps /\ last'.ok)
          => /\ vec'[last'.self].size_ = vec[last'.self].size_ + 1
             /\ SubSeq(ElemsAfter(last'.self), 1, vec[last'.self].size_) = Elems(last'.self)
             /\ ElemsAfter(last'.self)[vec[last'.self].size_ + 1] = last'.arg]_vars

SameInstance(i) == vec[i].alive /\ vec'[i].alive

\* After a growth operation that returned, the capacity holds the requested length.
GrowthReachesRequest ==
    /\ (last'.op \in ResizeOps \cup {"Reserve"} /\ last'.ok)
          => vec'[last'.self].capacity_ >= last'.arg
    /\ (last'.op \in PushOps /\ last'.ok)
          => vec'[last'.self].capacity_ >= vec[last'.self].size_ + 1

\* C10 as stated: across any operation on an instance the capacity does not
\* decrease unless the operation is ShrinkToFit, and after every growth
\* operation the capacity is at least the requested length.
C10_CapacityOnlyShrinksByShrinkToFit ==
    [][/\ last'.op # "ShrinkToFit"
          => \A i \in Inst :
                 SameInstance(i) => vec'[i].capacity_ >= vec[i].capacity_
       /\ GrowthReachesRequest]_vars

TakesOverCapacity ==
    {"ShrinkToFit", "operator=(const Vector&)", "operator=(Vector&&)",
     "Vector(Vector&&)", "Swap"}

\* C10 amended: across any operation on an instance the capacity does not
\* decrease unless the operation is ShrinkToFit, a copy or move assignment (the
\* target takes the capacity of the source, a moved-from source drops to 0), a
\* move construction (the source drops to 0) or Swap (the capacities are
\* exchanged); after every growth operation that returns, the capacity is at
\* least the requested length.
C10_CapacityMonotoneButForTransfers ==
    [][/\ last'.op \notin TakesOverCapacity
          => \A i \in Inst :
                 SameInstance(i) => vec'[i].capacity_ >= vec[i].capacity_
       /\ GrowthReachesRequest]_vars

C10_Witness ==
    /\ last.op = "Reserve" /\ last.ok /\ last.grow
    /\ vec[last.self].size_ > 0
    /\ vec[last.self].capacity_ = last.arg

Min(a, b) == IF a < b THEN a ELSE b

\* C11: every Resize(n) / Resize(n, value) that returns leaves length n, keeps
\* the values of the elements [0, min(old length, n)), makes every new element
\* [old length, n) equal to value (the default value for Resize(n)), and sets
\* the capacity to n when n exceeds the old capacity, leaving capacity and
\* storage as they were otherwise.
C11_ResizeResult ==
    [][(last'.op \in ResizeOps /\ last'.ok)
          => /\ vec'[last'.self].size_ = last'.arg
             /\ SubSeq(ElemsAfter(last'.self), 1, Min(vec[last'.self].size_, last'.arg))
                  = SubSeq(Elems(last'.self), 1, Min(vec[last'.self].size_, last'.arg))
             /\ \A k \in (vec[last'.self].size_ + 1)..last'.arg :
                    ElemsAfter(last'.self)[k]
                        = (IF last'.op = "Resize(n)" THEN DefaultVal ELSE last'.ret)
             /\ IF last'.arg > vec[last'.self].capacity_
                THEN vec'[last'.self].capacity_ = last'.arg
                ELSE /\ vec'[last'.self].capacity_ = vec[last'.self].capacity_
                     /\ vec'[last'.self].data_ = vec[last'.self].data_]_vars

\* v.Resize(m, value); v.Resize(L), both returning, from memory M and instance v
\* of length L.
ResizeRoundTrip(M, v, m, arg) ==
    LET grown == DoResizeValue(M, v, m, arg, NoFail)
    IN  DoResize(grown.M, grown.v, v.size_, DefaultVal, NoFail)

\* What value may refer to: an object outside the array or one of its elements.
ValueArgs(v) ==
    {External(x) : x \in Values \cup {DefaultVal}} \cup {Element(x) : x \in 0..(v.size_ - 1)}

\* C12: for every array of length L and every m > L, Resize(m) or
\* Resize(m, value) followed by Resize(L) gives an array of length L whose
\* elements [0, L) are the original ones, whether the first Resize reallocates
\* (m beyond the capacity) or not.
C12_ResizeRoundTrip ==
    \A i \in Inst :
        Alive(i) =>
            \A m \in (vec[i].size_ + 1)..MaxCap, arg \in ValueArgs(vec[i]) :
                /\ ResizeRoundTrip(M0, vec[i], m, arg).ok
                /\ ResizeRoundTrip(M0, vec[i], m, arg).M.faults = {}
                /\ ResizeRoundTrip(M0, vec[i], m, arg).v.size_ = vec[i].size_
                /\ Contents(ResizeRoundTrip(M0, vec[i], m, arg).M,
                            ResizeRoundTrip(M0, vec[i], m, arg).v) = Elems(i)

\* An array of two distinct values that a Resize has just filled to its
\* capacity, so that the round trip to a greater length reallocates.
C12_Witness ==
    /\ last.op \in ResizeOps /\ last.ok /\ ~last.grow
    /\ ~crashed
    /\ vec[last.self].size_ = last.arg
    /\ vec[last.self].size_ = 2 /\ vec[last.self].capacity_ = 2
    /\ Elems(last.self)[1] # Elems(last.self)[2]
    /\ ResizeRoundTrip(M0, vec[last.self], MaxCap, External(DefaultVal)).v.data_
          # vec[last.self].data_

\* C13: after every ShrinkToFit that returns, capacity equals length and the
\* elements are unchanged; with length 0 the storage is released and data_ is
\* null; with length equal to capacity nothing is reallocated; and when the
\* reallocation fails, length, capacity and contents are as before the call.
C13_ShrinkToFit ==
    [][last'.op = "ShrinkToFit"
          => /\ last'.ok
                  => /\ vec'[last'.self].capacity_ = vec'[last'.self].size_
                     /\ vec'[last'.self].size_ = vec[last'.self].size_
                     /\ ElemsAfter(last'.self) = Elems(last'.self)
                     /\ vec[last'.self].size_ = 0
                          => /\ vec'[last'.self].data_ = NullPtr
                             /\ heap' = [r \in Region |->
                                            IF r = vec[last'.self].data_ THEN <<>>
                                            ELSE heap[r]]
                     /\ vec[last'.self].size_ = vec[last'.self].capacity_
                          => UNCHANGED <<heap, vec>>
             /\ (~last'.ok)
                  => /\ vec' = vec
                     /\ ElemsAfter(last'.self) = Elems(last'.self)]_vars

\* a precedes b lexicographically: a is a proper prefix of b, or at the first
\* position where they differ a has the smaller element.
Precedes(a, b) ==
    \/ Len(a) < Len(b) /\ a = SubSeq(b, 1, Len(a))
    \/ \E k \in 1..Min(Len(a), Len(b)) :
           /\ SubSeq(a, 1, k - 1) = SubSeq(b, 1, k - 1)
           /\ a[k] < b[k]

CompareOps ==
    {"operator==", "operator!=", "operator<", "operator>", "operator<=", "operator>="}

\* C14: a comparison depends only on the live elements, not on capacity:
\* a == b iff the lengths are equal and the elements pairwise equal; a < b iff a
\* precedes b lexicographically; (a != b) = !(a == b), (a > b) = (b < a),
\* (a <= b) = !(b < a), (a >= b) = !(a < b); and exactly one of a < b, a == b,
\* a > b holds.
C14_Comparisons ==
    [][last'.op \in CompareOps
          => /\ last'.op = "operator=="
                  => (last'.ret = 1 <=> Elems(last'.self) = Elems(last'.other))
             /\ last'.op = "operator<"
                  => (last'.ret = 1 <=> Precedes(Elems(last'.self), Elems(last'.other)))
             /\ last'.op = "operator!="
                  => (last'.ret = 1 <=> ~VecEqual(M0, vec[last'.self], vec[last'.other]))
             /\ last'.op = "operator>"
                  => (last'.ret = 1 <=> VecLess(M0, vec[last'.other], vec[last'.self]))
             /\ last'.op = "operator<="
                  => (last'.ret = 1 <=> ~VecLess(M0, vec[last'.other], vec[last'.self]))
             /\ last'.op = "operator>="
                  => (last'.ret = 1 <=> ~VecLess(M0, vec[last'.self], vec[last'.other]))
             /\ Cardinality({c \in {"<", "==", ">"} :
                    \/ c = "<" /\ VecLess(M0, vec[last'.self], vec[last'.other])
                    \/ c = "==" /\ VecEqual(M0, vec[last'.self], vec[last'.other])
                    \/ c = ">" /\ VecGreater(M0, vec[last'.self], vec[last'.other])}) = 1]_vars

\* [1,2] < [1,2,x] with the shorter array holding spare capacity.
C14_Witness ==
    /\ last.op = "operator<" /\ last.ret = 1
    /\ vec[last.self].size_ = 2 /\ vec[last.other].size_ = 3
    /\ vec[last.self].capacity_ = 3
    /\ Elems(last.self) = SubSeq(Elems(last.other), 1, 2)

CtorOps ==
    {"Vector(size)", "Vector(size,value)", "Vector(first,last)", "Vector(init)",
     "Vector(const Vector&)"}

\* C15: for each allocating constructor (size, size and value, range,
\* initializer list, copy): when the construction of an element (or the
\* allocation) fails, the elements already constructed have been destroyed
\* exactly once and the storage released when the exception leaves, and no
\* instance exists; when it returns, length = capacity = n (for a copy, the
\* length and the capacity of the source), and a construction for capacity 0
\* allocates nothing.
C15_ConstructorRollback ==
    [][last'.op \in CtorOps
          => /\ faults' = {}
             /\ (~last'.ok)
                  => /\ heap' = heap
                     /\ vec' = vec
                     /\ ~vec'[last'.self].alive
             /\ (last'.ok /\ last'.op # "Vector(const Vector&)")
                  => /\ vec'[last'.self].alive
                     /\ vec'[last'.self].size_ = last'.arg
                     /\ vec'[last'.self].capacity_ = last'.arg
                     /\ last'.arg = 0
                          => vec'[last'.self].data_ = NullPtr /\ heap' = heap
             /\ (last'.ok /\ last'.op = "Vector(const Vector&)")
                  => /\ vec'[last'.self].alive
                     /\ vec'[last'.self].size_ = vec[last'.other].size_
                     /\ vec'[last'.self].capacity_ = vec[last'.other].capacity_
                     /\ vec[last'.other].capacity_ = 0
                          => vec'[last'.self].data_ = NullPtr /\ heap' = heap]_vars

\* A copy of an array of MaxCap elements has failed: only the source's region
\* is allocated.
C15_Witness ==
    /\ last.op = "Vector(const Vector&)" /\ ~last.ok
    /\ \E j \in Inst :
           /\ vec[j].alive /\ vec[j].size_ = MaxCap
           /\ \A r \in Region : heap[r] # <<>> <=> r = vec[j].data_
    /\ ~vec[last.self].alive

\* The statements of a reallocation that come before the old storage is torn down.
BeforeTeardown == {"allocate", "move", "construct", "catch_destroy", "catch_deallocate"}

\* The storage the instance of the call in progress had when the call was made.
OldData == frame.before.v.data_
OldSize == frame.before.v.size_

\* No element of the old storage has been destroyed and it has not been released.
OldIntact(h) ==
    OldData # NullPtr
        => /\ h[OldData] # <<>>
           /\ \A k \in 1..OldSize : h[OldData][k] # Raw

\* Followed statement by statement, a reallocating call ends in the state the
\* operation taken as a whole gives.
StepsAgree ==
    [][(frame.pc # "idle" /\ frame'.pc = "idle")
          => \E R \in {SetSize(Reallocate([heap |-> frame.before.heap, faults |-> {}],
                                           frame.before.v, frame.new_cap, frame.args,
                                           IF frame.pc = "allocate" THEN AllocFail
                                           ELSE frame.f),
                                frame.new_size)} :
                 /\ heap' = R.M.heap
                 /\ vec'[frame.self] = R.v
                 /\ faults' = R.M.faults
                 /\ last'.ok = R.ok]_vars

\* C16: in every reallocating operation (Reserve, Resize, PushBack,
\* EmplaceBack, ShrinkToFit) the new region is allocated first, the live elements
\* are transferred and the new elements constructed in it, and only when all of
\* that has succeeded are the old elements destroyed, the old storage released
\* and data_ and capacity_ updated; on no failing path is an old element
\* destroyed or the old storage released.
C16_TeardownAfterSuccess ==
    [][/\ frame'.pc \in {"move", "construct", "catch_destroy"}
          => /\ frame'.new_data # NullPtr
             /\ Len(heap'[frame'.new_data]) = frame'.new_cap
       /\ frame.pc \in BeforeTeardown
          => /\ OldIntact(heap')
             /\ vec' = vec
             /\ vec[frame.self] = frame.before.v
       /\ frame'.pc = "destroy_old"
          => /\ frame.pc \in {"move", "construct"}
             /\ faults' = {}
             /\ \A k \in 1..frame'.new_size : heap'[frame'.new_data][k] # Raw
             /\ SubSeq(heap'[frame'.new_data], 1, OldSize)
                  = SubSeq(Block([heap |-> frame.before.heap], OldData), 1, OldSize)
       /\ frame'.pc = "deallocate_old" => frame.pc = "destroy_old"
       /\ frame'.pc = "adopt" => frame.pc = "deallocate_old"
       /\ frame.pc = "adopt"
          => /\ last'.ok
             /\ vec'[frame.self].data_ = frame.new_data
             /\ vec'[frame.self].capacity_ = frame.new_cap
             /\ OldData # NullPtr => heap'[OldData] = <<>>
       /\ (frame.pc # "idle" /\ frame'.pc = "idle" /\ ~last'.ok)
          => /\ frame.pc \in BeforeTeardown
             /\ OldIntact(heap')
             /\ vec'[frame.self] = frame.before.v]_vars

\* A Resize beyond the capacity of a full array of two elements has failed
\* after both were moved: the catch block has released the new region and the
\* old one still stands.
C16_Witness ==
    /\ last.op = "Resize(n)" /\ ~last.ok /\ last.grow
    /\ frame.pc = "idle"
    /\ vec[last.self].size_ = 2 /\ vec[last.self].capacity_ = 2
    /\ heap[vec[last.self].data_] = <<MovedFrom, MovedFrom>>
    /\ \A r \in Region : r # vec[last.self].data_ => heap[r] = <<>>

Max(a, b) == IF a > b THEN a ELSE b

\* The smallest power of two that is at least k (k >= 1).
IsPowerOfTwo(p) == \E e \in 0..p : 2^e = p
PowerOfTwoFrom(k) ==
    CHOOSE p \in k..(2 * k) :
        IsPowerOfTwo(p) /\ \A q \in k..(2 * k) : IsPowerOfTwo(q) => p <= q

\* k calls of PushBack in a row, all returning, from memory M and instance v.
RECURSIVE PushN(_, _, _)
PushN(M, v, k) ==
    IF k = 0 THEN [M |-> M, v |-> v, ok |-> TRUE]
    ELSE DoPushBack(PushN(M, v, k - 1).M, PushN(M, v, k - 1).v,
                    External(DefaultVal), NoFail)

\* PushBack / EmplaceBack reallocate only when length == capacity, the new
\* capacity being max(1, 2 * old capacity) then; with length < capacity the
\* storage region and the capacity are unchanged.
GrowsByDoubling ==
    last'.op \in PushOps
       => /\ (last'.ok /\ vec[last'.self].size_ = vec[last'.self].capacity_)
               => /\ vec'[last'.self].capacity_ = Max(1, 2 * vec[last'.self].capacity_)
                  /\ vec'[last'.self].data_ # vec[last'.self].data_
          /\ vec[last'.self].size_ < vec[last'.self].capacity_
               => /\ vec'[last'.self].capacity_ = vec[last'.self].capacity_
                  /\ vec'[last'.self].data_ = vec[last'.self].data_

\* After k pushes onto instance i as a step leaves it, the capacity is the
\* smallest power of two >= k.
PushesReachPowerOfTwo(i) ==
    \A k \in 1..PushCap :
        PushN([heap |-> heap', faults |-> {}], vec'[i], k).v.capacity_ = PowerOfTwoFrom(k)

\* C17: PushBack / EmplaceBack reallocate only when length == capacity, to
\* exactly max(1, 2 * old capacity), and leave storage and capacity alone when
\* length < capacity; and after k >= 1 pushes, with no other operation, onto an
\* empty array (length = capacity = 0, no storage) the capacity is the smallest
\* power of two >= k.
C17_PushGrowth ==
    [][/\ GrowsByDoubling
       /\ \A i \in Inst :
              (vec'[i].alive /\ vec'[i].size_ = 0 /\ vec'[i].capacity_ = 0)
                  => PushesReachPowerOfTwo(i)]_vars

\* The fifth push in a row onto an array that was empty without storage: the
\* capacity went 1, 2, 4, 4 and is 8 now.
C17_Witness ==
    /\ last.op \in PushOps /\ last.ok /\ last.grow
    /\ vec[last.self].size_ = 5 /\ vec[last.self].capacity_ = 8
    /\ \A k \in 1..5 : Elems(last.self)[k] = DefaultVal

\* C18: Reserve(n) never changes the length or the values of the elements
\* [0, length); after a call that returns the capacity is max(old capacity, n);
\* and with n <= capacity it changes nothing at all: same storage region, no
\* allocation, no element moved.
C18_ReserveFrame ==
    [][last'.op = "Reserve"
          => /\ vec'[last'.self].size_ = vec[last'.self].size_
             /\ ElemsAfter(last'.self) = Elems(last'.self)
             /\ last'.ok
                  => vec'[last'.self].capacity_
                         = Max(vec[last'.self].capacity_, last'.arg)
             /\ (~last'.grow)
                  => /\ last'.ok /\ faults' = {}
                     /\ UNCHANGED <<heap, vec>>]_vars

\* C19: Clear and PopBack never fail and never change the capacity or the
\* storage region.  Clear leaves length 0 in every reachable state (an array
\* without storage included); PopBack on a non-empty array destroys the last
\* element only, takes 1 off the length and leaves the elements before it
\* unchanged; PopBack on an empty array changes nothing.
C19_ClearPopBackFrame ==
    [][last'.op \in {"Clear", "PopBack"}
          => /\ last'.ok /\ faults' = {} /\ ~crashed'
             /\ vec'[last'.self].capacity_ = vec[last'.self].capacity_
             /\ vec'[last'.self].data_ = vec[last'.self].data_
             /\ \A r \in Region : Len(heap'[r]) = Len(heap[r])
             /\ last'.op = "Clear"
                  => /\ vec'[last'.self].size_ = 0
                     /\ \A r \in Region : \A k \in DOMAIN heap[r] :
                            heap'[r][k] = (IF r = vec[last'.self].data_ THEN Raw
                                           ELSE heap[r][k])
             /\ (last'.op = "PopBack" /\ vec[last'.self].size_ > 0)
                  => /\ vec'[last'.self].size_ = vec[last'.self].size_ - 1
                     /\ ElemsAfter(last'.self)
                          = SubSeq(Elems(last'.self), 1, vec[last'.self].size_ - 1)
                     /\ \A r \in Region : \A k \in DOMAIN heap[r] :
                            heap'[r][k] = (IF r = vec[last'.self].data_
                                              /\ k = vec[last'.self].size_
                                           THEN Raw ELSE heap[r][k])
             /\ (last'.op = "PopBack" /\ vec[last'.self].size_ = 0)
                  => UNCHANGED <<heap, vec>>]_vars

\* Clear has just emptied an array that held elements; its capacity stands.
C19_Witness ==
    /\ last.op = "Clear"
    /\ vec[last.self].size_ = 0 /\ vec[last.self].capacity_ = MaxCap
    /\ heap[vec[last.self].data_] = RawBlock(MaxCap)

\* C20: when the argument of PushBack(const T&) refers to an element of the
\* array itself (v.PushBack(v[i]), i < length), the appended element equals the
\* value element i had before the call and element i keeps that value, with
\* spare capacity and when the full array reallocates.
C20_PushBackOfOwnElement ==
    [][(last'.op = "PushBack(const T&)" /\ last'.own /\ last'.ok)
          => /\ ElemsAfter(last'.self)[vec[last'.self].size_ + 1] = last'.arg
             /\ ElemsAfter(last'.self)[last'.ret + 1] = last'.arg]_vars

====
